---- MODULE Spec2Model ----
(***************************************************************************)
(* A model of the tv-screener query builder: the Column expression         *)
(* builder (column.ts), the logical combinators And/Or (operators.ts) and  *)
(* the Query builder with its execution calls (query.ts).                  *)
(*                                                                         *)
(* JavaScript values are tagged records, so that `typeof`, the `in`        *)
(* operator and JSON serialization can be computed as the code computes    *)
(* them.  Objects whose identity matters (the queryDict of a Query and the *)
(* containers it mutates in place) live in a heap and are named by         *)
(* references; everything else is an inline value.                         *)
(***************************************************************************)
EXTENDS Integers, Sequences, FiniteSets, TLC

VARIABLES
    heap,       \* the object heap: a sequence of cells, an address is an index
    query,      \* query[b]: address of the private queryDict of Query b (0: b not constructed)
    last,       \* the last call made: [op, b, args]
    passed,     \* passed[b]: every predicate handed to where() on b, in order
    indexArgs,  \* indexArgs[b]: the argument list of every setIndex() call on b, in order
    touched,    \* touched[b]: the builder methods called on b so far
    doc,        \* what the last toJSON() or getQueryDict() returned to the caller
    ncalls,     \* number of builder calls made so far
    stack,      \* expressions built so far by col(...).method(), And(...), Or(...)
    call        \* the execution call (getScannerData) in progress

vars == <<heap, query, last, passed, indexArgs, touched, doc, ncalls, stack, call>>

----------------------------------------------------------------------------
(* JavaScript values *)

Str(s) == [t |-> "string", v |-> s]
Num(n) == [t |-> "number", v |-> n]
Bool(b) == [t |-> "boolean", v |-> b]
Arr(s) == [t |-> "array", v |-> s]
Obj(r) == [t |-> "object", v |-> r]
Ref(a) == [t |-> "ref", a |-> a]
Undefined == [t |-> "undefined"]
Null == [t |-> "null"]
EmptyObj == Obj(<<>>)

\* typeof x
Typeof(x) == IF x.t \in {"object", "array", "null", "ref"} THEN "object" ELSE x.t

\* 'k' in x, for x an object
In(k, x) == x.t = "object" /\ k \in DOMAIN x.v

\* x.k (undefined when the property is missing)
Get(x, k) == IF In(k, x) THEN x.v[k] ELSE Undefined

\* x.k = val
SetProp(x, k, val) == Obj([f \in (DOMAIN x.v) \cup {k} |-> IF f = k THEN val ELSE x.v[f]])

\* !x is false
Truthy(x) ==
    /\ x.t \notin {"undefined", "null"}
    /\ x # Num(0)
    /\ x # Str("")
    /\ x # Bool(FALSE)

RangeOf(s) == {s[i] : i \in 1..Len(s)}

----------------------------------------------------------------------------
(* column.ts: the Column expression builder (a Column is its name) *)

Column_gt(name, value) ==
    Obj([left |-> Str(name), operation |-> Str("greater"), right |-> value])

Column_gte(name, value) ==
    Obj([left |-> Str(name), operation |-> Str("egreater"), right |-> value])

Column_eq(name, value) ==
    Obj([left |-> Str(name), operation |-> Str("equal"), right |-> value])

Column_between(name, min, max) ==
    Obj([left |-> Str(name), operation |-> Str("in_range"),
         right |-> Arr(<<Num(min), Num(max)>>)])

Column_crossesAbove(name, value) ==
    Obj([left |-> Str(name), operation |-> Str("crosses_above"), right |-> value])

Column_lt(name, value) ==
    Obj([left |-> Str(name), operation |-> Str("less"), right |-> value])

Column_lte(name, value) ==
    Obj([left |-> Str(name), operation |-> Str("eless"), right |-> value])

Column_neq(name, value) ==
    Obj([left |-> Str(name), operation |-> Str("nequal"), right |-> value])

Column_crosses(name, value) ==
    Obj([left |-> Str(name), operation |-> Str("crosses"), right |-> value])

Column_crossesBelow(name, value) ==
    Obj([left |-> Str(name), operation |-> Str("crosses_below"), right |-> value])

Column_like(name, pattern) ==
    Obj([left |-> Str(name), operation |-> Str("match"), right |-> pattern])

Column_notLike(name, pattern) ==
    Obj([left |-> Str(name), operation |-> Str("nmatch"), right |-> pattern])

Column_has(name, values) ==
    Obj([left |-> Str(name), operation |-> Str("has"), right |-> values])

Column_hasNoneOf(name, values) ==
    Obj([left |-> Str(name), operation |-> Str("has_none_of"), right |-> values])

Column_isin(name, values) ==
    Obj([left |-> Str(name), operation |-> Str("has"), right |-> values])

Column_notIn(name, values) ==
    Obj([left |-> Str(name), operation |-> Str("has_none_of"), right |-> values])

Column_abovePct(name, value) ==
    Obj([left |-> Str(name), operation |-> Str("above_pct"), right |-> value])

Column_belowPct(name, value) ==
    Obj([left |-> Str(name), operation |-> Str("below_pct"), right |-> value])

Column_notBetween(name, min, max) ==
    Obj([left |-> Str(name), operation |-> Str("not_in_range"),
         right |-> Arr(<<Num(min), Num(max)>>)])

Column_inDayRange(name, min, max) ==
    Obj([left |-> Str(name), operation |-> Str("in_day_range"),
         right |-> Arr(<<Num(min), Num(max)>>)])

Column_inWeekRange(name, min, max) ==
    Obj([left |-> Str(name), operation |-> Str("in_week_range"),
         right |-> Arr(<<Num(min), Num(max)>>)])

Column_inMonthRange(name, min, max) ==
    Obj([left |-> Str(name), operation |-> Str("in_month_range"),
         right |-> Arr(<<Num(min), Num(max)>>)])

Column_betweenPct(name, min, max) ==
    Obj([left |-> Str(name), operation |-> Str("in_range_pct"),
         right |-> Arr(<<Num(min), Num(max)>>)])

Column_notBetweenPct(name, min, max) ==
    Obj([left |-> Str(name), operation |-> Str("not_in_range_pct"),
         right |-> Arr(<<Num(min), Num(max)>>)])

\* empty() writing an explicit null operand
Column_empty_null(name) ==
    Obj([left |-> Str(name), operation |-> Str("empty"), right |-> Null])

Column_empty(name) ==
    Obj([left |-> Str(name), operation |-> Str("empty")])

Column_notEmpty(name) ==
    Obj([left |-> Str(name), operation |-> Str("nempty")])

\* col(name): a Column instance, as the data it carries
col(name) == Obj([name |-> Str(name)])

----------------------------------------------------------------------------
(* operators.ts: And / Or *)

\* the structural tag check of And/Or: is expr already an OperationDict?
IsOperationDict(expr) ==
    /\ In("operation", expr)
    /\ Typeof(expr.v.operation) = "object"
    /\ expr.v.operation # Null
    /\ In("operator", expr.v.operation)

\* WrapOperand without its tag check: every input is wrapped
WrapOperand_always(expr) == Obj([expression |-> expr])

\* the callback of expressions.map(...)
WrapOperand(expr) ==
    IF IsOperationDict(expr) THEN expr ELSE Obj([expression |-> expr])

And(expressions) ==
    Obj([operation |->
        Obj([operator |-> Str("and"),
             operands |-> Arr([i \in 1..Len(expressions) |-> WrapOperand(expressions[i])])])])

Or(expressions) ==
    Obj([operation |->
        Obj([operator |-> Str("or"),
             operands |-> Arr([i \in 1..Len(expressions) |-> WrapOperand(expressions[i])])])])

----------------------------------------------------------------------------
(* The heap: object identity, JSON serialization *)

\* the value a reference (or an inline value) denotes, with every reference followed
RECURSIVE Deref(_, _)
Deref(h, x) ==
    CASE x.t = "ref" -> Deref(h, h[x.a])
      [] x.t = "object" -> Obj([k \in DOMAIN x.v |-> Deref(h, x.v[k])])
      [] x.t = "array" -> Arr([i \in 1..Len(x.v) |-> Deref(h, x.v[i])])
      [] OTHER -> x

\* JSON.parse(JSON.stringify(x)): the JSON document of x, as the value it denotes.
\* A property whose value is undefined is left out, an undefined array element
\* becomes null; a class instance is written as its own properties.
RECURSIVE JsonValue(_)
JsonValue(x) ==
    CASE x.t = "object" ->
            Obj([k \in {f \in DOMAIN x.v : x.v[f].t # "undefined"} |-> JsonValue(x.v[k])])
      [] x.t = "array" ->
            Arr([i \in 1..Len(x.v) |->
                    IF x.v[i].t = "undefined" THEN Null ELSE JsonValue(x.v[i])])
      [] OTHER -> x

\* One container of a queryDict gets a cell of its own (an object or array literal,
\* or one built by JSON.parse, is a fresh object).
Hoist(st, k) ==
    IF In(k, st.d) /\ st.d.v[k].t \in {"object", "array"}
    THEN [h |-> Append(st.h, st.d.v[k]), d |-> SetProp(st.d, k, Ref(Len(st.h) + 1))]
    ELSE st

\* A queryDict given as a value is allocated: the result is the new heap and the
\* address of the queryDict.
StoreDict(h, d) ==
    LET st == Hoist(Hoist(Hoist([h |-> h, d |-> d], "symbols"), "filter"), "range")
    IN  [h |-> Append(st.h, st.d), q |-> Len(st.h) + 1]

\* Addresses are only names: after each call the cells no Query can reach are
\* dropped and the others renumbered in the order Q, C reach them.
AddNew(seq, a) == IF a \in RangeOf(seq) THEN seq ELSE Append(seq, a)

RECURSIVE AddAll(_, _)
AddAll(seq, as) == IF as = <<>> THEN seq ELSE AddAll(AddNew(seq, Head(as)), Tail(as))

ChildRefs(h, d) ==
    LET c == <<Get(h[d], "symbols"), Get(h[d], "filter"), Get(h[d], "range")>>
        r == SelectSeq(c, LAMBDA x : x.t = "ref")
    IN  [i \in 1..Len(r) |-> r[i].a]

Visit(seq, h, d) == IF d = 0 THEN seq ELSE AddAll(seq, <<d>> \o ChildRefs(h, d))

Reached(h, qs) == Visit(Visit(<<>>, h, qs["Q"]), h, qs["C"])

IndexOf(seq, a) == CHOOSE i \in 1..Len(seq) : seq[i] = a

Relocate(x, ord) ==
    IF x.t = "object"
    THEN Obj([k \in DOMAIN x.v |->
                IF x.v[k].t = "ref" THEN Ref(IndexOf(ord, x.v[k].a)) ELSE x.v[k]])
    ELSE x

Compact(h, qs) ==
    LET ord == Reached(h, qs)
    IN  [h |-> [i \in 1..Len(ord) |-> Relocate(h[ord[i]], ord)],
         qs |-> [b \in DOMAIN qs |-> IF qs[b] = 0 THEN 0 ELSE IndexOf(ord, qs[b])]]

\* a value held by the caller, after the renumbering: a reference follows its cell
Forward(x, h, qs) == IF x.t = "ref" THEN Ref(IndexOf(Reached(h, qs), x.a)) ELSE x

----------------------------------------------------------------------------
(* query.ts: the Query builder.  Each method is a function of the heap h and *)
(* the address q of this.queryDict.                                          *)

\* a constructor that sets neither symbols nor filter
DefaultDict_sparse ==
    Obj([markets |-> Arr(<<Str("america")>>),
         options |-> Obj([lang |-> Str("en")]),
         columns |-> Arr(<<Str("name"), Str("close"), Str("volume"), Str("market_cap_basic")>>),
         sort    |-> Obj([sortBy |-> Str("name"), sortOrder |-> Str("asc")]),
         range   |-> Arr(<<Num(0), Num(50)>>)])

\* the object literal of the constructor
DefaultDict ==
    Obj([markets |-> Arr(<<Str("america")>>),
         symbols |-> EmptyObj,
         options |-> Obj([lang |-> Str("en")]),
         columns |-> Arr(<<Str("name"), Str("close"), Str("volume"), Str("market_cap_basic")>>),
         filter  |-> Arr(<<>>),
         sort    |-> Obj([sortBy |-> Str("name"), sortOrder |-> Str("asc")]),
         range   |-> Arr(<<Num(0), Num(50)>>)])

\* new Query()
NewQuery(h) == StoreDict(h, DefaultDict)

\* select() without its guard against an empty argument list
select_unguarded(h, q, columns) == [h EXCEPT ![q] = SetProp(@, "columns", Arr(columns))]

select(h, q, columns) ==
    IF Len(columns) > 0
    THEN [h EXCEPT ![q] = SetProp(@, "columns", Arr(columns))]
    ELSE h

setMarkets(h, q, markets) ==
    IF Len(markets) > 0
    THEN [h EXCEPT ![q] = SetProp(@, "markets", Arr(markets))]
    ELSE h

\* if (!this.queryDict.symbols) this.queryDict.symbols = {}
EnsureSymbols(h, q) ==
    IF ~Truthy(Get(h[q], "symbols"))
    THEN [Append(h, EmptyObj) EXCEPT ![q] = SetProp(@, "symbols", Ref(Len(h) + 1))]
    ELSE h

setTickers(h, q, tickers) ==
    IF Len(tickers) > 0
    THEN LET h1 == EnsureSymbols(h, q)
             s  == Get(h1[q], "symbols").a
         IN  [h1 EXCEPT ![s] = SetProp(@, "tickers", Arr(tickers))]
    ELSE h

\* setIndex() replacing the groups, as select() replaces the columns
setIndex_replace(h, q, indexes) ==
    IF Len(indexes) > 0
    THEN LET s == Get(h[q], "symbols").a
             g == Obj([type |-> Str("index"), values |-> Arr(indexes)])
         IN  [h EXCEPT ![s] = SetProp(@, "groups", Arr(<<g>>))]
    ELSE h

setIndex(h, q, indexes) ==
    IF Len(indexes) > 0
    THEN LET h1 == EnsureSymbols(h, q)
             s  == Get(h1[q], "symbols").a
             h2 == IF ~Truthy(Get(h1[s], "groups"))
                   THEN [h1 EXCEPT ![s] = SetProp(@, "groups", Arr(<<>>))]
                   ELSE h1
             g  == Obj([type |-> Str("index"), values |-> Arr(indexes)])
         IN  [h2 EXCEPT ![s] = SetProp(@, "groups", Arr(Append(Get(@, "groups").v, g)))]
    ELSE h

\* where() assigning the list instead of pushing onto it
where_assign(h, q, expressions) ==
    LET f == Get(h[q], "filter").a
    IN  [h EXCEPT ![f] = Arr(expressions)]

where(h, q, expressions) ==
    LET h1 == IF ~Truthy(Get(h[q], "filter"))
              THEN [Append(h, Arr(<<>>)) EXCEPT ![q] = SetProp(@, "filter", Ref(Len(h) + 1))]
              ELSE h
        f  == Get(h1[q], "filter").a
    IN  [h1 EXCEPT ![f] = Arr(@.v \o expressions)]

\* where2() that also empties the flat filter list
where2_exclusive(h, q, operation) ==
    LET f == Get(h[q], "filter").a
    IN  [h EXCEPT ![q] = SetProp(@, "filter2", operation), ![f] = Arr(<<>>)]

where2(h, q, operation) == [h EXCEPT ![q] = SetProp(@, "filter2", operation)]

\* orderBy() that writes the nullsFirst key only when it is set
orderBy_sparse(h, q, column, ascending, nullsFirst) ==
    [h EXCEPT ![q] = SetProp(@, "sort",
        IF nullsFirst
        THEN Obj([sortBy |-> column,
                  sortOrder |-> IF ascending THEN Str("asc") ELSE Str("desc"),
                  nullsFirst |-> Bool(TRUE)])
        ELSE Obj([sortBy |-> column,
                  sortOrder |-> IF ascending THEN Str("asc") ELSE Str("desc")]))]

\* a parameter with a default: the i-th argument, or dflt when it is not given
OrDefault(args, i, dflt) == IF i <= Len(args) THEN args[i] ELSE dflt

orderBy(h, q, column, ascending, nullsFirst) ==
    [h EXCEPT ![q] = SetProp(@, "sort",
        Obj([sortBy |-> column,
             sortOrder |-> IF ascending THEN Str("asc") ELSE Str("desc"),
             nullsFirst |-> Bool(nullsFirst)]))]

\* limit() that forgets the lower bound: range[1] = limit
limit_absolute(h, q, n) ==
    LET r == Get(h[q], "range").a
    IN  [h EXCEPT ![r] = Arr(<<@.v[1], Num(n)>>)]

limit(h, q, n) ==
    IF ~Truthy(Get(h[q], "range"))
    THEN [Append(h, Arr(<<Num(0), Num(n)>>)) EXCEPT ![q] = SetProp(@, "range", Ref(Len(h) + 1))]
    ELSE LET r == Get(h[q], "range").a
         IN  [h EXCEPT ![r] = Arr(<<@.v[1], Num(@.v[1].v + n)>>)]

\* offset() that always takes the default window of 50
offset_default(h, q, m) ==
    [Append(h, Arr(<<Num(m), Num(m + 50)>>)) EXCEPT ![q] = SetProp(@, "range", Ref(Len(h) + 1))]

offset(h, q, m) ==
    IF ~Truthy(Get(h[q], "range"))
    THEN [Append(h, Arr(<<Num(m), Num(m + 50)>>)) EXCEPT ![q] = SetProp(@, "range", Ref(Len(h) + 1))]
    ELSE LET r == Get(h[q], "range").a
             currentLimit == h[r].v[2].v - h[r].v[1].v
         IN  [Append(h, Arr(<<Num(m), Num(m + currentLimit)>>))
                 EXCEPT ![q] = SetProp(@, "range", Ref(Len(h) + 1))]

\* copy() that clones only the top level: { ...this.queryDict }
copy_shallow(h, q) == [h |-> Append(h, h[q]), q |-> Len(h) + 1]

\* copy(): the new heap and the address of the queryDict of the new Query
copy(h, q) ==
    LET newQuery == NewQuery(h)
    IN  StoreDict(newQuery.h, JsonValue(Deref(newQuery.h, Ref(q))))

\* getQueryDict() returning a snapshot: a deep clone of the queryDict, as a value
getQueryDict_snapshot(h, q) == JsonValue(Deref(h, Ref(q)))

\* getQueryDict(): the queryDict itself
getQueryDict(h, q) == Ref(q)

\* toJSON(): JSON.stringify(this.queryDict, null, 2), as the document it denotes
toJSON(h, q) == JsonValue(Deref(h, Ref(q)))

----------------------------------------------------------------------------
(* query.ts: execution *)

\* Object.entries(cookies).map(([key, value]) => `${key}=${value}`).join('; '),
\* as the sequence of its key=value pieces
CookieHeader(cookies) == [i \in 1..Len(cookies) |-> <<cookies[i][1], "=", cookies[i][2]>>]

\* getScannerDataRaw up to its await of fetch: the request that is sent
Request(h, q, cookies) ==
    LET markets == Deref(h, Get(h[q], "markets"))
        first   == IF markets.t = "array" /\ Len(markets.v) > 0 THEN markets.v[1] ELSE Undefined
    IN  [market  |-> IF Truthy(first) THEN first ELSE Str("america"),
         method  |-> "POST",
         cookie  |-> IF cookies = <<>> THEN <<>> ELSE CookieHeader(cookies),
         body    |-> JsonValue(Deref(h, Ref(q)))]

\* a zip that stops at the shorter sequence: a column without a value gets no key
RECURSIVE AssignColumns_skip(_, _, _, _)
AssignColumns_skip(obj, columns, d, i) ==
    IF i > Len(columns) \/ i > Len(d) THEN obj
    ELSE AssignColumns_skip(SetProp(obj, columns[i].v, d[i]), columns, d, i + 1)

\* the callback of columns.forEach: obj[col] = row.d[index], from index i on
RECURSIVE AssignColumns(_, _, _, _)
AssignColumns(obj, columns, d, i) ==
    IF i > Len(columns) THEN obj
    ELSE AssignColumns(SetProp(obj, columns[i].v, IF i <= Len(d) THEN d[i] ELSE Undefined),
                       columns, d, i + 1)

\* the callback of rawData.data.map
FormatRow(columns, row) ==
    AssignColumns(Obj([symbol |-> row.v.s]), columns, row.v.d.v, 1)

\* getScannerData after getScannerDataRaw has returned rawData
FormatData(h, q, rawData) ==
    LET c == Deref(h, Get(h[q], "columns"))
        columns == IF Truthy(c) THEN c.v ELSE <<>>
        rows == rawData.v.data.v
    IN  Obj([totalCount |-> rawData.v.totalCount,
             data |-> Arr([j \in 1..Len(rows) |-> FormatRow(columns, rows[j])])])

----------------------------------------------------------------------------
(* Bounds and inputs *)

MaxCalls == 3       \* builder calls in one behaviour
MaxStack == 3       \* expressions held at once while a filter tree is built
MaxBuild == 5       \* expressions built in one behaviour
MaxRows == 2        \* rows of one response
MaxRequests == 2    \* execution calls in one behaviour

Builders == {"Q", "C"}

ColumnArgs == {<<>>, <<Str("close")>>, <<Str("symbol"), Str("close")>>}
MarketArgs == {<<>>, <<Str("india"), Str("forex")>>}
TickerArgs == {<<>>, <<Str("NASDAQ:AAPL")>>}
IndexArgs == {<<>>, <<Str("SYML:SP;SPX")>>, <<Str("SYML:NASDAQ;NDX"), Str("SYML:DJ;DJI")>>}

P1 == Column_gt("volume", Num(1000))
P2 == Column_empty("sector")
P3 == Column_crossesAbove("close", col("SMA50"))
Preds == {P1, P2, P3}

WhereArgs == {<<>>, <<P1>>, <<P2, P3>>}
Where2Args == {And(<<P1, Or(<<P2, P3>>)>>), Or(<<P1>>)}
OrderByArgs == {<<Str("volume"), FALSE, FALSE>>, <<Str("close"), TRUE, TRUE>>}
LimitArgs == {10, 20}
OffsetArgs == {0, 5}
CookieArgs == {<<>>, <<<<"sessionid", "abc">>>>}

Row(s, d) == Obj([s |-> Str(s), d |-> Arr(d)])
Rows == {Row("NASDAQ:AAPL", <<Num(150), Num(9000)>>),
         Row("NYSE:IBM", <<Num(7)>>),
         Row("NASDAQ:MSFT", <<Num(1), Num(2), Num(3), Num(4), Num(5)>>)}

RowSeqs == UNION {[1..n -> Rows] : n \in 0..MaxRows}

Responses ==
    {[ok |-> TRUE, status |-> 200, statusText |-> "OK",
      json |-> Obj([totalCount |-> Num(t), data |-> Arr(rs)])] : t \in {2, 100}, rs \in RowSeqs}
    \cup
    {[ok |-> FALSE, status |-> 500, statusText |-> "Internal Server Error", json |-> Undefined]}

----------------------------------------------------------------------------
(* The state machine *)

Idle == [pc |-> "idle", b |-> "Q", raw |-> FALSE, n |-> 0, request |-> Undefined,
         response |-> Undefined, out |-> Undefined, error |-> Undefined]

\* the state after `new Query()`, with the expressions in built already made
InitWith(built) ==
    LET q0 == NewQuery(<<>>)
        c0 == Compact(q0.h, [b \in Builders |-> IF b = "Q" THEN q0.q ELSE 0])
    IN  /\ heap = c0.h
        /\ query = c0.qs
        /\ last = [op |-> "new", b |-> "Q", args |-> <<>>]
        /\ passed = [b \in Builders |-> <<>>]
        /\ indexArgs = [b \in Builders |-> <<>>]
        /\ touched = [b \in Builders |-> {}]
        /\ doc = Undefined
        /\ ncalls = 0
        /\ stack = built
        /\ call = Idle

Init == InitWith(<<>>)

\* the bookkeeping of a builder call op(args) on b that leaves the heap h1
Called(b, op, args, h1) ==
    LET c == Compact(h1, query)
    IN  /\ query[b] # 0
        /\ ncalls < MaxCalls
        /\ heap' = c.h
        /\ query' = c.qs
        /\ last' = [op |-> op, b |-> b, args |-> args]
        /\ touched' = [touched EXCEPT ![b] = @ \cup {op}]
        /\ ncalls' = ncalls + 1
        /\ doc' = Forward(doc, h1, query)
        /\ UNCHANGED <<stack, call>>

Select(b, columns) ==
    /\ Called(b, "select", columns, select(heap, query[b], columns))
    /\ UNCHANGED <<passed, indexArgs>>

SetMarkets(b, markets) ==
    /\ Called(b, "setMarkets", markets, setMarkets(heap, query[b], markets))
    /\ UNCHANGED <<passed, indexArgs>>

SetTickers(b, tickers) ==
    /\ Called(b, "setTickers", tickers, setTickers(heap, query[b], tickers))
    /\ UNCHANGED <<passed, indexArgs>>

SetIndex(b, indexes) ==
    /\ Called(b, "setIndex", indexes, setIndex(heap, query[b], indexes))
    /\ indexArgs' = [indexArgs EXCEPT ![b] = Append(@, indexes)]
    /\ UNCHANGED passed

Where(b, expressions) ==
    /\ Called(b, "where", expressions, where(heap, query[b], expressions))
    /\ passed' = [passed EXCEPT ![b] = @ \o expressions]
    /\ UNCHANGED indexArgs

Where2(b, operation) ==
    /\ Called(b, "where2", <<operation>>, where2(heap, query[b], operation))
    /\ UNCHANGED <<passed, indexArgs>>

OrderBy(b, a) ==
    /\ Called(b, "orderBy", a,
              orderBy(heap, query[b], a[1], OrDefault(a, 2, TRUE), OrDefault(a, 3, FALSE)))
    /\ UNCHANGED <<passed, indexArgs>>

Limit(b, n) ==
    /\ Called(b, "limit", <<n>>, limit(heap, query[b], n))
    /\ UNCHANGED <<passed, indexArgs>>

Offset(b, m) ==
    /\ Called(b, "offset", <<m>>, offset(heap, query[b], m))
    /\ UNCHANGED <<passed, indexArgs>>

\* C = Q.copy()
Copy ==
    LET r == copy(heap, query["Q"])
        c == Compact(r.h, [query EXCEPT !["C"] = r.q])
    IN  /\ ncalls < MaxCalls
        /\ heap' = c.h
        /\ query' = c.qs
        /\ last' = [op |-> "copy", b |-> "Q", args |-> <<>>]
        /\ passed' = [passed EXCEPT !["C"] = passed["Q"]]
        /\ indexArgs' = [indexArgs EXCEPT !["C"] = indexArgs["Q"]]
        /\ touched' = [touched EXCEPT !["C"] = touched["Q"]]
        /\ ncalls' = ncalls + 1
        /\ UNCHANGED <<doc, stack, call>>

ToJSON(b) ==
    /\ query[b] # 0
    /\ ncalls < MaxCalls
    /\ doc' = toJSON(heap, query[b])
    /\ last' = [op |-> "toJSON", b |-> b, args |-> <<>>]
    /\ ncalls' = ncalls + 1
    /\ UNCHANGED <<heap, query, passed, indexArgs, touched, stack, call>>

\* d = b.getQueryDict(): the caller holds what the call returns
GetQueryDict(b) ==
    /\ query[b] # 0
    /\ ncalls < MaxCalls
    /\ doc' = getQueryDict(heap, query[b])
    /\ last' = [op |-> "getQueryDict", b |-> b, args |-> <<>>]
    /\ ncalls' = ncalls + 1
    /\ UNCHANGED <<heap, query, passed, indexArgs, touched, stack, call>>

Next ==
    \/ \E b \in Builders, a \in ColumnArgs : Select(b, a)
    \/ \E b \in Builders, a \in MarketArgs : SetMarkets(b, a)
    \/ \E b \in Builders, a \in TickerArgs : SetTickers(b, a)
    \/ \E b \in Builders, a \in IndexArgs : SetIndex(b, a)
    \/ \E b \in Builders, a \in WhereArgs : Where(b, a)
    \/ \E b \in Builders, a \in Where2Args : Where2(b, a)
    \/ \E b \in Builders, a \in OrderByArgs : OrderBy(b, a)
    \/ \E b \in Builders, n \in LimitArgs : Limit(b, n)
    \/ \E b \in Builders, m \in OffsetArgs : Offset(b, m)
    \/ Copy
    \/ \E b \in Builders : ToJSON(b)

Spec == Init /\ [][Next]_vars

\* the state of builder b as a value: its queryDict with every reference followed
View(b) == Deref(heap, Ref(query[b]))

----------------------------------------------------------------------------
(* Building filter expressions: col(...).method(), And(...), Or(...) *)

Max(S) == CHOOSE x \in S : \A y \in S : y <= x

\* nesting depth of a filter tree: a leaf has depth 0
RECURSIVE Depth(_)
Depth(x) ==
    IF IsOperationDict(x)
    THEN LET ops == x.v.operation.v.operands.v
         IN  1 + Max({0} \cup {Depth(ops[i]) : i \in 1..Len(ops)})
    ELSE 0

\* the last k expressions built
Top(k) == SubSeq(stack, Len(stack) - k + 1, Len(stack))

Built(op, args, result) ==
    /\ ncalls < MaxBuild
    /\ stack' = SubSeq(stack, 1, Len(stack) - Len(args)) \o <<result>>
    /\ Len(stack') <= MaxStack
    /\ last' = [op |-> op, b |-> "Q", args |-> args]
    /\ ncalls' = ncalls + 1
    /\ UNCHANGED <<heap, query, passed, indexArgs, touched, doc, call>>

\* col(name).method(...)
MkPredicate(p) == Built("col", <<>>, p)

\* And(...) of the last k expressions built
MkAnd(k) == k <= Len(stack) /\ Built("And", Top(k), And(Top(k)))

\* Or(...) of the last k expressions built
MkOr(k) == k <= Len(stack) /\ Built("Or", Top(k), Or(Top(k)))

NextExpr ==
    \/ \E p \in Preds : MkPredicate(p)
    \/ \E k \in 0..MaxStack : MkAnd(k)
    \/ \E k \in 0..MaxStack : MkOr(k)

SpecExpr == Init /\ [][NextExpr]_vars

----------------------------------------------------------------------------
(* Executing a query: getScannerDataRaw / getScannerData *)

\* the call runs up to `await fetch(...)`: the request is sent
Fetch(b, raw, cookies) ==
    /\ query[b] # 0
    /\ call.pc \in {"idle", "done", "failed"}
    /\ call.n < MaxRequests
    /\ call' = [Idle EXCEPT !.pc = "pending", !.b = b, !.raw = raw, !.n = call.n + 1,
                            !.request = Request(heap, query[b], cookies)]
    /\ last' = [op |-> "fetch", b |-> b, args |-> <<>>]
    /\ UNCHANGED <<heap, query, passed, indexArgs, touched, doc, ncalls, stack>>

\* the remote service answers
Respond(r) ==
    /\ call.pc = "pending"
    /\ call' = [call EXCEPT !.pc = "responded", !.response = r]
    /\ last' = [op |-> "respond", b |-> call.b, args |-> <<>>]
    /\ UNCHANGED <<heap, query, passed, indexArgs, touched, doc, ncalls, stack>>

\* a call that swallows a failed response and returns an empty result
Resume_swallow ==
    /\ call.pc = "responded"
    /\ call' =
         [call EXCEPT !.pc = "done",
                      !.out = IF ~call.response.ok
                              THEN Obj([totalCount |-> Num(0), data |-> Arr(<<>>)])
                              ELSE IF call.raw THEN call.response.json
                              ELSE FormatData(heap, query[call.b], call.response.json)]
    /\ last' = [op |-> "resume", b |-> call.b, args |-> <<>>]
    /\ UNCHANGED <<heap, query, passed, indexArgs, touched, doc, ncalls, stack>>

\* the call resumes after its awaits and runs to its end
Resume ==
    /\ call.pc = "responded"
    /\ call' =
         IF ~call.response.ok
         THEN [call EXCEPT !.pc = "failed",
                           !.error = <<"TradingView API request failed:",
                                       call.response.status, call.response.statusText>>]
         ELSE [call EXCEPT !.pc = "done",
                           !.out = IF call.raw THEN call.response.json
                                   ELSE FormatData(heap, query[call.b], call.response.json)]
    /\ last' = [op |-> "resume", b |-> call.b, args |-> <<>>]
    /\ UNCHANGED <<heap, query, passed, indexArgs, touched, doc, ncalls, stack>>

NextScan ==
    \/ \E b \in Builders, a \in ColumnArgs : Select(b, a)
    \/ \E b \in Builders, raw \in BOOLEAN, c \in CookieArgs : Fetch(b, raw, c)
    \/ \E r \in Responses : Respond(r)
    \/ Resume

SpecScan == Init /\ [][NextScan]_vars

----------------------------------------------------------------------------
(* Producing the document: toJSON(), getQueryDict() and the body of a request, *)
(* with builder calls before and after                                        *)

NextDoc ==
    \/ \E a \in ColumnArgs : Select("Q", a)
    \/ \E a \in WhereArgs : Where("Q", a)
    \/ \E n \in LimitArgs : Limit("Q", n)
    \/ \E m \in OffsetArgs : Offset("Q", m)
    \/ ToJSON("Q")
    \/ GetQueryDict("Q")
    \/ \E raw \in BOOLEAN, c \in CookieArgs : Fetch("Q", raw, c)

SpecDoc == Init /\ [][NextDoc]_vars

----------------------------------------------------------------------------
(* Paging: limit() and offset() with any integer argument *)

AnyLimitArgs == LimitArgs \cup {-5, 0, 1}
AnyOffsetArgs == OffsetArgs \cup {-3, -1, 7}

NextRange ==
    \/ \E n \in AnyLimitArgs : Limit("Q", n)
    \/ \E m \in AnyOffsetArgs : Offset("Q", m)

SpecRange == Init /\ [][NextRange]_vars

----------------------------------------------------------------------------
(* Sorting: orderBy() with and without its optional arguments *)

AnyOrderByArgs == OrderByArgs \cup {<<Str("volume")>>, <<Str("volume"), FALSE>>}

NextSort ==
    \/ \E a \in AnyOrderByArgs : OrderBy("Q", a)
    \/ \E a \in ColumnArgs : Select("Q", a)
    \/ \E n \in LimitArgs : Limit("Q", n)
    \/ ToJSON("Q")

SpecSort == Init /\ [][NextSort]_vars

----------------------------------------------------------------------------
(* Predicates of every Column method, through where(), copy() and toJSON() *)

FieldNames == {"sector", "close"}

\* the predicates of the two methods without an operand
Nullary(name) == {Column_empty(name), Column_notEmpty(name)}

\* the predicates of every other method, on sample operands
Comparisons(name) ==
    {Column_gt(name, Num(1000)), Column_gte(name, Num(1000)), Column_lt(name, Num(1000)),
     Column_lte(name, Num(1000)), Column_eq(name, Str("Technology")),
     Column_neq(name, Str("Technology")), Column_between(name, 1, 2),
     Column_notBetween(name, 1, 2), Column_inDayRange(name, 1, 2),
     Column_inWeekRange(name, 1, 2), Column_inMonthRange(name, 1, 2),
     Column_abovePct(name, Num(5)), Column_belowPct(name, Num(5)),
     Column_betweenPct(name, 1, 2), Column_notBetweenPct(name, 1, 2),
     Column_crosses(name, col("SMA50")), Column_crossesAbove(name, col("SMA50")),
     Column_crossesBelow(name, col("SMA50")), Column_like(name, Str("A")),
     Column_notLike(name, Str("A")), Column_has(name, Arr(<<Str("NYSE")>>)),
     Column_hasNoneOf(name, Arr(<<Str("NYSE")>>)), Column_isin(name, Arr(<<Str("NYSE")>>)),
     Column_notIn(name, Arr(<<Str("NYSE")>>))}

AllPreds == UNION {Nullary(name) \cup Comparisons(name) : name \in FieldNames}

\* p = col(name).method(...) has been evaluated
InitPred == \E p \in AllPreds : InitWith(<<p>>)

\* b.where(p)
WhereBuilt(b) == Where(b, stack)

NextPred ==
    \/ \E b \in Builders : WhereBuilt(b)
    \/ Copy
    \/ \E b \in Builders : ToJSON(b)

SpecPred == InitPred /\ [][NextPred]_vars

----------------------------------------------------------------------------
(* Reading the state of a builder *)

Live(b) == query[b] # 0
Other(b) == IF b = "Q" THEN "C" ELSE "Q"

Columns(b) == View(b).v.columns.v
Markets(b) == View(b).v.markets.v
Filter(b) == View(b).v.filter.v
Filter2(b) == Get(View(b), "filter2")
Tickers(b) == Get(View(b).v.symbols, "tickers")
Groups(b) == LET g == Get(View(b).v.symbols, "groups") IN IF g.t = "array" THEN g.v ELSE <<>>
Range(b) == LET r == View(b).v.range.v IN <<r[1].v, r[2].v>>
Sort(b) == View(b).v.sort

\* the range of the queryDict at q in heap h
RangeIn(h, q) == LET r == Deref(h, Get(h[q], "range")).v IN <<r[1].v, r[2].v>>

\* the cells the queryDict of b reaches
Cells(b) == RangeOf(Visit(<<>>, heap, query[b]))

BuilderOps == {"select", "setMarkets", "setTickers", "setIndex", "where", "where2",
               "orderBy", "limit", "offset"}

----------------------------------------------------------------------------
(* Claims *)

\* C1: the flat filter list of a builder is the concatenation, in call order and
\* in argument order, of all the predicates passed to where() on it (for a copy:
\* on its source up to the copy, then on it), whatever other calls are made in
\* between; so its length is the number of predicates passed.
C1_WhereAppends ==
    \A b \in Builders : Live(b) =>
        /\ Filter(b) = passed[b]
        /\ Len(Filter(b)) = Len(passed[b])

\* two where() calls with another builder call on the same builder
C1_Witness ==
    \E b \in Builders :
        /\ Live(b)
        /\ last.op = "where" /\ last.b = b /\ Len(last.args) = 2
        /\ Len(passed[b]) = 3
        /\ touched[b] \ {"where"} # {}

\* C2: And/Or return a node tagged 'and'/'or' with one operand per input, in order:
\* a bare predicate wrapped as {expression: predicate}, an input that is itself a
\* connective node nested unchanged (never flattened).
C2_Connective ==
    last.op \in {"And", "Or"} =>
        LET node == stack[Len(stack)]
            args == last.args
            operands == node.v.operation.v.operands.v
        IN  /\ DOMAIN node.v = {"operation"}
            /\ DOMAIN node.v.operation.v = {"operator", "operands"}
            /\ node.v.operation.v.operator = Str(IF last.op = "And" THEN "and" ELSE "or")
            /\ Len(operands) = Len(args)
            /\ \A i \in 1..Len(args) :
                 IF In("left", args[i])
                 THEN operands[i] = Obj([expression |-> args[i]])
                 ELSE operands[i] = args[i]
            /\ (args = <<P1, Or(<<P2, P3>>)>> /\ last.op = "And") =>
                 /\ Len(operands) = 2
                 /\ operands[1] = Obj([expression |-> P1])
                 /\ operands[2].v.operation.v.operator = Str("or")
                 /\ operands[2].v.operation.v.operands.v =
                        <<Obj([expression |-> P2]), Obj([expression |-> P3])>>

\* And(p, Or(q, r)) has been built
C2_Witness ==
    /\ last.op = "And"
    /\ last.args = <<P1, Or(<<P2, P3>>)>>
    /\ Depth(stack[Len(stack)]) = 2

\* C3: C = Q.copy() gives C the state of Q and leaves Q as it is; afterwards a
\* builder call on either leaves the state of the other unchanged, and the two
\* share no cell of the heap.
C3_Step ==
    /\ last'.op = "copy" =>
         /\ View("C")' = View("Q")
         /\ View("Q")' = View("Q")
    /\ \A b \in Builders :
         (last'.op \in BuilderOps /\ last'.b = b /\ Live(Other(b))) =>
             View(Other(b))' = View(Other(b))

C3_NoSharing == (Live("Q") /\ Live("C")) => Cells("Q") \cap Cells("C") = {}

\* C3: every step is as C3_Step says, and Q and its copy never share a cell
C3_CopyIsolated == [][C3_Step]_vars /\ []C3_NoSharing

\* after the copy both builders were changed, the copy last, and they differ
C3_Witness ==
    /\ Live("C")
    /\ last.op \in BuilderOps /\ last.b = "C"
    /\ View("C") # View("Q")
    /\ touched["Q"] # {}
    /\ Filter("C") # Filter("Q")

\* C4: limit(n) sets the range [lo, hi] to [lo, lo+n], offset(m) sets it to
\* [m, m+(hi-lo)]; so [0,50] -limit(10)-> [0,10] -offset(5)-> [5,15] -limit(20)-> [5,25].
C4_Step ==
    \A b \in Builders :
        /\ (last'.op = "limit" /\ last'.b = b) =>
              Range(b)' = <<Range(b)[1], Range(b)[1] + last'.args[1]>>
        /\ (last'.op = "offset" /\ last'.b = b) =>
              Range(b)' = <<last'.args[1], last'.args[1] + (Range(b)[2] - Range(b)[1])>>
        /\ (last'.op = "limit" /\ last'.b = b /\ last'.args = <<10>> /\ Range(b) = <<0, 50>>) =>
              Range(b)' = <<0, 10>>
        /\ (last'.op = "offset" /\ last'.b = b /\ last'.args = <<5>> /\ Range(b) = <<0, 10>>) =>
              Range(b)' = <<5, 15>>
        /\ (last'.op = "limit" /\ last'.b = b /\ last'.args = <<20>> /\ Range(b) = <<5, 15>>) =>
              Range(b)' = <<5, 25>>

\* C4: every limit and offset step composes with the current range as C4_Step says
C4_RangeComposition == [][C4_Step]_vars

\* limit(10), offset(5), limit(20) from the default range
C4_Witness ==
    /\ last.op = "limit" /\ last.b = "Q" /\ last.args = <<20>>
    /\ touched["Q"] = {"limit", "offset"}
    /\ ncalls = 3
    /\ Range("Q") = <<5, 25>>

\* C5 as stated: from the same starting state, limit(n) then offset(m) and
\* offset(m) then limit(n) end in different ranges.
C5_OrderSensitive ==
    \A b \in Builders : Live(b) =>
        \A n \in LimitArgs, m \in OffsetArgs :
            RangeIn(offset(limit(heap, query[b], n), query[b], m), query[b])
              # RangeIn(limit(offset(heap, query[b], m), query[b], n), query[b])

\* C5 as amended: limit and offset each read the current range, but for integer
\* arguments the two orders end in the same range, [m, m+n].
C5_OrderInsensitive ==
    \A b \in Builders : Live(b) =>
        \A n \in LimitArgs, m \in OffsetArgs :
            /\ RangeIn(offset(limit(heap, query[b], n), query[b], m), query[b]) = <<m, m + n>>
            /\ RangeIn(limit(offset(heap, query[b], m), query[b], n), query[b]) = <<m, m + n>>

\* a builder on which limit and offset were both called, from a range that was
\* not the default one
C5_Witness ==
    \E b \in Builders :
        /\ Live(b)
        /\ {"limit", "offset"} \subseteq touched[b]
        /\ last.op \in {"limit", "offset"} /\ last.b = b
        /\ ncalls = 3
        /\ Range(b) = <<5, 15>>

\* C6 as stated: the result of getScannerData has the totalCount of the response
\* and one record per row, in order, record j being {symbol: r_j.s} together with
\* columns[i] -> r_j.d[i] for every index i of the column list.
C6_ResponseMapping ==
    (last.op = "resume" /\ call.pc = "done" /\ ~call.raw) =>
        LET rows == call.response.json.v.data.v
            recs == call.out.v.data.v
            cols == Columns(call.b)
        IN  /\ call.out.v.totalCount = call.response.json.v.totalCount
            /\ Len(recs) = Len(rows)
            /\ \A j \in 1..Len(rows) :
                 /\ Get(recs[j], "symbol") = rows[j].v.s
                 /\ \A i \in 1..Len(cols) :
                      Get(recs[j], cols[i].v) =
                         IF i <= Len(rows[j].v.d.v) THEN rows[j].v.d.v[i] ELSE Undefined

\* C7 as stated: on a builder where where(), setTickers() and setIndex() were never
\* called the document has no filter key and no symbols key, and has markets, sort
\* and range.
C7_OnlySetFields ==
    (last.op = "toJSON" /\ touched[last.b] \cap {"where", "setTickers", "setIndex"} = {}) =>
        /\ ~In("filter", doc)
        /\ ~In("symbols", doc)
        /\ In("markets", doc) /\ In("sort", doc) /\ In("range", doc)

\* C7 as amended: the document always has the keys markets, symbols, options,
\* columns, filter, sort and range, and the key filter2 exactly when where2() was
\* called; on a builder where where(), setTickers() and setIndex() were never called
\* filter is the empty list and symbols the empty object, and markets, sort and
\* range carry their defaults until they are set.
C7_DefaultsPresent ==
    last.op = "toJSON" =>
        LET t == touched[last.b]
        IN  /\ DOMAIN doc.v =
                 {"markets", "symbols", "options", "columns", "filter", "sort", "range"}
                   \cup (IF "where2" \in t THEN {"filter2"} ELSE {})
            /\ (t \cap {"where", "setTickers", "setIndex"} = {}) =>
                 (doc.v.filter = Arr(<<>>) /\ doc.v.symbols = EmptyObj)
            /\ "setMarkets" \notin t => doc.v.markets = Arr(<<Str("america")>>)
            /\ "orderBy" \notin t =>
                 doc.v.sort = Obj([sortBy |-> Str("name"), sortOrder |-> Str("asc")])
            /\ (t \cap {"limit", "offset"} = {}) => doc.v.range = Arr(<<Num(0), Num(50)>>)

\* the document of a builder that was changed, but not by where, setTickers, setIndex
C7_Witness ==
    /\ last.op = "toJSON"
    /\ touched[last.b] # {}
    /\ touched[last.b] \cap {"where", "setTickers", "setIndex"} = {}
    /\ In("filter", doc) /\ In("symbols", doc)

\* C8: where2(node) sets filter2 to node and leaves the flat filter list as it is;
\* no other builder call changes filter2, where() in particular; the document
\* carries both the flat list and the tree.
C8_Step ==
    \A b \in Builders :
        /\ (last'.op = "where2" /\ last'.b = b) =>
              (Filter2(b)' = last'.args[1] /\ Filter(b)' = Filter(b))
        /\ (last'.op \in BuilderOps \ {"where2"} /\ last'.b = b) =>
              Filter2(b)' = Filter2(b)

C8_Document ==
    last.op = "toJSON" =>
        /\ In("filter", doc) /\ doc.v.filter.v = passed[last.b]
        /\ Get(doc, "filter2") = Filter2(last.b)
        /\ "where2" \in touched[last.b] => In("filter2", doc)

\* C8: every step is as C8_Step says, and every document carries both filters
C8_Where2Replaces == [][C8_Step]_vars /\ []C8_Document

\* a document with a populated flat filter list and a boolean tree
C8_Witness ==
    /\ last.op = "toJSON"
    /\ {"where", "where2"} \subseteq touched[last.b]
    /\ Len(doc.v.filter.v) > 0
    /\ In("filter2", doc)

\* C9: select, setMarkets and setTickers set their list to the arguments when there
\* is at least one, and change nothing at all when there is none; the market list
\* and the column list are never empty.
C9_Step ==
    \A b \in Builders :
        LET args == last'.args
            mine == last'.b = b
        IN  /\ (last'.op = "select" /\ mine /\ Len(args) > 0) => Columns(b)' = args
            /\ (last'.op = "setMarkets" /\ mine /\ Len(args) > 0) => Markets(b)' = args
            /\ (last'.op = "setTickers" /\ mine /\ Len(args) > 0) => Tickers(b)' = Arr(args)
            /\ (last'.op \in {"select", "setMarkets", "setTickers"} /\ mine /\ Len(args) = 0) =>
                  (heap' = heap /\ query' = query)

C9_NeverEmpty ==
    \A b \in Builders : Live(b) => (Len(Markets(b)) > 0 /\ Len(Columns(b)) > 0)

\* C9: every setter step is as C9_Step says, and markets and columns are never empty
C9_Setters == [][C9_Step]_vars /\ []C9_NeverEmpty

\* select() with no argument after a selection
C9_Witness ==
    /\ last.op = "select" /\ last.args = <<>>
    /\ "select" \in touched[last.b]
    /\ Columns(last.b) = <<Str("close")>>

\* the group setIndex(values) appends
IndexGroup(values) == Obj([type |-> Str("index"), values |-> Arr(values)])

\* C10 as stated: after k calls to setIndex the groups are k, in call order, each
\* holding the arguments of its call.
C10_GroupPerCall ==
    \A b \in Builders : Live(b) =>
        /\ Len(Groups(b)) = Len(indexArgs[b])
        /\ \A i \in 1..Len(indexArgs[b]) : Groups(b)[i] = IndexGroup(indexArgs[b][i])

\* C10 as amended: each setIndex call with at least one argument appends one group
\* holding its arguments and a call with none changes nothing, so the groups are,
\* in call order, those of the calls that had arguments.
C10_GroupPerNonEmptyCall ==
    \A b \in Builders : Live(b) =>
        LET given == SelectSeq(indexArgs[b], LAMBDA a : Len(a) > 0)
        IN  /\ Len(Groups(b)) = Len(given)
            /\ \A i \in 1..Len(given) : Groups(b)[i] = IndexGroup(given[i])

\* three setIndex calls, one of them without arguments
C10_Witness ==
    \E b \in Builders :
        /\ Live(b)
        /\ last.op = "setIndex" /\ last.b = b
        /\ Len(indexArgs[b]) = 3
        /\ Len(Groups(b)) = 2
        /\ Groups(b)[1] # Groups(b)[2]

\* C11 as stated: producing the document (toJSON, getQueryDict, the body of a
\* request) changes nothing in the builder, and no later builder call changes a
\* document already produced.
C11_DocumentFrozenStep ==
    /\ last'.op \in {"toJSON", "getQueryDict", "fetch"} => (heap' = heap /\ query' = query)
    /\ last'.op \in BuilderOps =>
          /\ Deref(heap', doc') = Deref(heap, doc)
          /\ call'.request = call.request

C11_DocumentFrozen == [][C11_DocumentFrozenStep]_vars

\* C11 as amended: toJSON, getQueryDict and sending a request change nothing in the
\* builder, and builder calls made afterwards have their usual effect.  The text toJSON returned
\* and the body of a request already sent are never changed by a later builder call;
\* getQueryDict returns the builder's own queryDict, so what it returned always shows
\* the current state of the builder, every later builder call included.
C11_Step ==
    \A b \in Builders : last'.b = b =>
        /\ last'.op \in {"toJSON", "getQueryDict", "fetch"} => (heap' = heap /\ query' = query)
        /\ last'.op = "toJSON" => doc' = JsonValue(View(b))
        /\ last'.op = "fetch" => call'.request.body = JsonValue(View(b))
        /\ last'.op = "getQueryDict" => doc' = Ref(query[b])
        /\ last'.op \in BuilderOps =>
              /\ call'.request = call.request
              /\ doc.t # "ref" => doc' = doc
              /\ (doc.t = "ref" /\ doc.a = query[b]) =>
                    (doc'.t = "ref" /\ Deref(heap', doc') = View(b)')
              /\ (last'.op = "select" /\ last'.args # <<>>) => Columns(b)' = last'.args
              /\ last'.op = "where" => Filter(b)' = Filter(b) \o last'.args
              /\ last'.op = "limit" => Range(b)' = <<Range(b)[1], Range(b)[1] + last'.args[1]>>

C11_DocumentLive == [][C11_Step]_vars

\* select() after getQueryDict(): what getQueryDict returned shows the new columns,
\* which the builder did not have when it was returned
C11_Witness ==
    /\ doc.t = "ref"
    /\ last.op = "select" /\ last.args = <<Str("close")>>
    /\ touched[last.b] = {"select"}
    /\ ncalls = 2
    /\ Deref(heap, doc).v.columns = Arr(last.args)

\* C12: when the response has a non-success status, getScannerDataRaw and
\* getScannerData alike end in one error that carries the status code and the status
\* text, return no data, send no further request, and leave the builder as it was.
C12_Step ==
    (last'.op = "resume" /\ ~call.response.ok) =>
        /\ call'.pc = "failed"
        /\ call'.error = <<"TradingView API request failed:",
                           call.response.status, call.response.statusText>>
        /\ call'.out = Undefined
        /\ call'.n = call.n
        /\ call'.request = call.request
        /\ heap' = heap /\ query' = query

C12_Failed ==
    call.pc = "failed" =>
        (call.out = Undefined /\ ~call.response.ok /\ call.error[2] = call.response.status)

C12_TransportFailure == [][C12_Step]_vars /\ []C12_Failed

\* getScannerData failed on a 500 answer, on a builder changed while it was pending
C12_Witness ==
    /\ call.pc = "failed" /\ last.op = "resume"
    /\ ~call.raw
    /\ call.error[2] = 500
    /\ call.n = 1
    /\ touched[call.b] = {"select"}

\* C13 as stated: after any sequence of limit(n) and offset(m) calls on a new Query
\* the range is a pair of non-negative integers whose upper bound is at least its
\* lower bound.
C13_RangeInvariant ==
    \A b \in Builders : Live(b) =>
        /\ Range(b)[1] \in Nat /\ Range(b)[2] \in Nat
        /\ Range(b)[2] >= Range(b)[1]

\* every connective node of the tree x, at every level, has at least one operand
RECURSIVE EveryNodeHasOperand(_)
EveryNodeHasOperand(x) ==
    IsOperationDict(x) =>
        LET ops == x.v.operation.v.operands.v
        IN  /\ Len(ops) >= 1
            /\ \A i \in 1..Len(ops) : EveryNodeHasOperand(ops[i])

\* C14 as stated: every connective node that And(...) or Or(...) produces, at every
\* nesting level of a tree built from them, has at least one operand.
C14_OperandsNonEmpty ==
    \A i \in 1..Len(stack) : EveryNodeHasOperand(stack[i])

\* the keys of a record
Keys(rec) == DOMAIN rec.v

\* the names in a column list
Names(cols) == {cols[i].v : i \in 1..Len(cols)}

\* C15 as stated: when a row has more values than there are columns the excess
\* values are dropped, and when it has fewer the columns without a value are absent
\* from the record, which has no key for them.
C15_MissingAbsent ==
    (last.op = "resume" /\ call.pc = "done" /\ ~call.raw) =>
        LET rows == call.response.json.v.data.v
            recs == call.out.v.data.v
            cols == Columns(call.b)
        IN  \A j \in 1..Len(rows) :
                LET d == rows[j].v.d.v
                IN  /\ Keys(recs[j]) \subseteq {"symbol"} \cup Names(cols)
                    /\ \A i \in 1..Len(cols) : i > Len(d) => ~In(cols[i].v, recs[j])

\* C15 as amended: the record has exactly the key symbol and one key per column of
\* the builder's column list, whatever the length of the row: the values beyond the
\* last column are dropped, and a column without a value is present in the record
\* with the value undefined.
C15_MissingUndefined ==
    (last.op = "resume" /\ call.pc = "done" /\ ~call.raw) =>
        LET rows == call.response.json.v.data.v
            recs == call.out.v.data.v
            cols == Columns(call.b)
        IN  \A j \in 1..Len(rows) :
                LET d == rows[j].v.d.v
                IN  /\ Keys(recs[j]) = {"symbol"} \cup Names(cols)
                    /\ \A i \in 1..Len(cols) :
                          /\ i <= Len(d) => recs[j].v[cols[i].v] = d[i]
                          /\ i > Len(d) => recs[j].v[cols[i].v] = Undefined

\* a response mapped with one row shorter and one row longer than the column list
C15_Witness ==
    /\ last.op = "resume" /\ call.pc = "done" /\ ~call.raw
    /\ LET rows == call.response.json.v.data.v
           recs == call.out.v.data.v
           cols == Columns(call.b)
       IN  /\ Len(rows) = 2
           /\ Len(rows[1].v.d.v) < Len(cols)
           /\ Len(rows[2].v.d.v) > Len(cols)
           /\ \E k \in Keys(recs[1]) : recs[1].v[k] = Undefined

\* C16: orderBy(column, ascending, nullsFirst) replaces the sort spec by {sortBy:
\* column, sortOrder: 'asc' if ascending else 'desc', nullsFirst}, ascending being
\* true and nullsFirst false when not given, so orderBy('volume', false) gives
\* {sortBy: 'volume', sortOrder: 'desc', nullsFirst: false}; no other call changes
\* the sort spec.
C16_Step ==
    \A b \in Builders : last'.b = b =>
        LET a == last'.args
        IN  /\ last'.op = "orderBy" =>
                  /\ Sort(b)' =
                        Obj([sortBy |-> a[1],
                             sortOrder |-> IF Len(a) >= 2 /\ ~a[2] THEN Str("desc") ELSE Str("asc"),
                             nullsFirst |-> Bool(Len(a) >= 3 /\ a[3])])
                  /\ (Len(a) = 2 /\ a[1] = Str("volume") /\ a[2] = FALSE) =>
                        Sort(b)' = Obj([sortBy |-> Str("volume"), sortOrder |-> Str("desc"),
                                        nullsFirst |-> Bool(FALSE)])
            /\ last'.op \in BuilderOps \ {"orderBy"} => Sort(b)' = Sort(b)

\* C16: the document carries the sort spec of the builder; on a builder where
\* orderBy was never called it is exactly {sortBy: 'name', sortOrder: 'asc'}, with
\* no nullsFirst key.
C16_Document ==
    last.op = "toJSON" =>
        /\ doc.v.sort = Sort(last.b)
        /\ "orderBy" \notin touched[last.b] =>
              /\ doc.v.sort = Obj([sortBy |-> Str("name"), sortOrder |-> Str("asc")])
              /\ ~In("nullsFirst", doc.v.sort)

C16_OrderBy == [][C16_Step]_vars /\ []C16_Document

\* the document after orderBy('close', true, true) was replaced by orderBy('volume', false)
C16_Witness ==
    /\ last.op = "toJSON"
    /\ ncalls = 3
    /\ touched[last.b] = {"orderBy"}
    /\ doc.v.sort = Obj([sortBy |-> Str("volume"), sortOrder |-> Str("desc"),
                         nullsFirst |-> Bool(FALSE)])

\* a predicate made by empty() or notEmpty()
IsNullary(p) == \E name \in FieldNames : p \in Nullary(name)

\* C17: for every field name empty() and notEmpty() return a predicate with exactly
\* the keys left and operation ('empty' / 'nempty'), and every other Column method
\* one that has a right key.
C17_Methods ==
    \A name \in FieldNames :
        /\ Column_empty(name) = Obj([left |-> Str(name), operation |-> Str("empty")])
        /\ Column_notEmpty(name) = Obj([left |-> Str(name), operation |-> Str("nempty")])
        /\ \A p \in Nullary(name) : Keys(p) = {"left", "operation"}
        /\ \A p \in Comparisons(name) : Keys(p) = {"left", "operation", "right"}

\* C17: a predicate without a right key has none in the filter list of the builder
\* it was handed to, in the filter list of a copy of that builder, and in the
\* document of either; a predicate with a right key keeps it.
C17_Survives ==
    /\ \A b \in Builders : Live(b) =>
          /\ Len(Filter(b)) = Len(passed[b])
          /\ \A i \in 1..Len(passed[b]) :
                In("right", Filter(b)[i]) <=> ~IsNullary(passed[b][i])
    /\ last.op = "toJSON" =>
          /\ Len(doc.v.filter.v) = Len(passed[last.b])
          /\ \A i \in 1..Len(passed[last.b]) :
                In("right", doc.v.filter.v[i]) <=> ~IsNullary(passed[last.b][i])

C17_NoOperand == C17_Methods /\ C17_Survives

\* the document of a copy whose source was handed a predicate made by notEmpty()
C17_Witness ==
    /\ last.op = "toJSON" /\ last.b = "C"
    /\ passed["C"] = <<Column_notEmpty("sector")>>
    /\ Keys(doc.v.filter.v[1]) = {"left", "operation"}
    /\ touched["C"] = {"where"}

\* C18 as stated: in every record getScannerData returns the symbol field is the s
\* field of the row it was made from, whatever the column list of the builder.
C18_SymbolKept ==
    (last.op = "resume" /\ call.pc = "done" /\ ~call.raw) =>
        LET rows == call.response.json.v.data.v
            recs == call.out.v.data.v
        IN  /\ Len(recs) = Len(rows)
            /\ \A j \in 1..Len(rows) :
                  (In("symbol", recs[j]) /\ recs[j].v.symbol = rows[j].v.s)

\* the column list in the body of the request that was sent
SentColumns == call.request.body.v.columns.v

\* C19 as stated: the records getScannerData returns are keyed by the column list
\* that was sent in the request, also when select() was called on the builder while
\* the request was pending.
C19_KeyedBySentColumns ==
    (last.op = "resume" /\ call.pc = "done" /\ ~call.raw) =>
        LET rows == call.response.json.v.data.v
            recs == call.out.v.data.v
        IN  \A j \in 1..Len(rows) :
                LET d == rows[j].v.d.v
                IN  /\ Keys(recs[j]) = {"symbol"} \cup Names(SentColumns)
                    /\ \A i \in 1..Len(SentColumns) :
                          Get(recs[j], SentColumns[i].v) =
                              IF i <= Len(d) THEN d[i] ELSE Undefined

====
